---- MODULE Spec2Model ----
(***************************************************************************)
(* Alpha Vantage acquisition pipeline of pyalgotrade:                      *)
(*   pyalgotrade/tools/alphavantage.py   (download_*, build_feed, main)    *)
(*   pyalgotrade/barfeed/alphavantagefeed.py   (Feed)                      *)
(* The state is the storage directory, the cache files, the feed under     *)
(* construction and the position of build_feed in its loop.                *)
(***************************************************************************)
EXTENDS Integers, Sequences, FiniteSets, TLC

\* ---------------------------------------------------------------- bounds
MaxSymbols == 2
MaxRuns == 2

Symbols == {"ORCL", "AAPL"}

\* ------------------------------------------------------- bar.Frequency
SECOND == 1
MINUTE == 60
HOUR == 3600
DAY == 86400
WEEK == 604800
MONTH == 2592000

Frequencies == {SECOND, MINUTE, HOUR, DAY, WEEK, MONTH}

None == "None"
\* A path of the storage directory: absent, or a file holding a sequence of chunks.
NoFile == [exists |-> FALSE, content |-> <<>>]
File(content) == [exists |-> TRUE, content |-> content]

\* A date argument that is None
NoDate == 0

\* The logical column keys of a bar feed.
ColumnKeys == {"datetime", "open", "high", "low", "close", "volume", "adj_close"}

\* A feed with no bar filter set
NoFilter == [installed |-> FALSE, fromDate |-> NoDate, toDate |-> NoDate]

\* ret before alphavantagefeed.Feed(...) has returned
NoFeed ==
    [constructed |-> FALSE, frequency |-> 0, instruments |-> <<>>,
     columns |-> [k \in ColumnKeys |-> None], barFilter |-> NoFilter,
     sealed |-> FALSE, bars |-> <<>>]

VARIABLES
    pc,        \* position of build_feed: idle, fetch, parse, returned, raised
    args,      \* the arguments of the current build_feed call
    i,         \* index in args.symbols of the symbol being processed
    ret,       \* the feed under construction (alphavantagefeed.Feed), or NoFeed
    err,       \* the exception that left build_feed, or None
    dirExists, \* os.path.exists(storage)
    disk,      \* cache path -> file content (NoFile when the path does not exist)
    requests,  \* network requests issued by the current call, in order
    occ,       \* per processed symbol occurrence of the current call: what happened
    run,       \* number of build_feed calls started
    prev       \* whether this call repeats the previous one, and how that one went

vars == <<pc, args, i, ret, err, dirExists, disk, requests, occ, run, prev>>

\* ------------------------------------------------------------ helpers
RECURSIVE SeqsUpTo(_, _)
SeqsUpTo(S, n) ==
    IF n = 0 THEN {<<>>}
    ELSE LET shorter == SeqsUpTo(S, n - 1)
         IN  shorter \cup {Append(s, x) : s \in {t \in shorter : Len(t) = n - 1}, x \in S}

Range(s) == {s[k] : k \in 1..Len(s)}

\* os.path.join(storage, "%s-alphavantage.csv" % (symbol,)): the storage root is
\* fixed in the model, so a path is the pair of the symbol and the file-name tag.
fileName(symbol) == <<symbol, "alphavantage">>

Paths == {fileName(s) : s \in Symbols}

exists(path) == disk[path].exists

\* ------------------------------------------------------- download_csv
\* Mutant of download_csv: no apikey parameter is sent when apiKey is None.
download_csv_nokey(symbol, frequency, apiKey) ==
    LET base == {<<"symbol", symbol>>, <<"datatype", "csv">>, <<"outputsize", "full">>}
        fun  == IF frequency = DAY THEN {<<"function", "TIME_SERIES_DAILY_ADJUSTED">>}
                ELSE IF frequency = WEEK THEN {<<"function", "TIME_SERIES_WEEKLY_ADJUSTED">>}
                ELSE IF frequency < DAY THEN
                    {<<"function", "TIME_SERIES_INTRADAY">>} \cup
                    (IF frequency = HOUR THEN {<<"interval", "60min">>}
                     ELSE IF frequency = MINUTE THEN {<<"interval", "1min">>}
                     ELSE {})
                ELSE {}
        key  == IF apiKey # None THEN {<<"apikey", apiKey>>} ELSE {}
    IN  base \cup fun \cup key

\* The request parameters, as a set of <<key, value>> pairs.
download_csv(symbol, frequency, apiKey) ==
    LET base == {<<"symbol", symbol>>, <<"datatype", "csv">>, <<"outputsize", "full">>}
        fun  == IF frequency = DAY THEN {<<"function", "TIME_SERIES_DAILY_ADJUSTED">>}
                ELSE IF frequency = WEEK THEN {<<"function", "TIME_SERIES_WEEKLY_ADJUSTED">>}
                ELSE IF frequency < DAY THEN
                    {<<"function", "TIME_SERIES_INTRADAY">>} \cup
                    (IF frequency = HOUR THEN {<<"interval", "60min">>}
                     ELSE IF frequency = MINUTE THEN {<<"interval", "1min">>}
                     ELSE {})
                ELSE {}
        key  == IF apiKey # None THEN {<<"apikey", apiKey>>} ELSE {<<"apikey", "demo">>}
    IN  base \cup fun \cup key

\* ------------------------------------------------- the environment
\* What the outside world does to one download: the vendor answers with the
\* expected content type or with another one (rate limit, unknown symbol); a CSV
\* body may hold a row that cannot be converted to a bar; open() or write() on
\* the cache file may fail.
Env ==
    {[net |-> "other", malformed |-> FALSE, fs |-> "ok"],
     [net |-> "csv", malformed |-> FALSE, fs |-> "open"],
     [net |-> "csv", malformed |-> FALSE, fs |-> "write"],
     [net |-> "csv", malformed |-> FALSE, fs |-> "ok"],
     [net |-> "csv", malformed |-> TRUE, fs |-> "ok"]}

\* csvutils.download_csv(url, params, content_type): one request; the body, or
\* an exception when the response has another content type.
\* The vendor's history grows from one download to the next: a body is tagged with
\* the least version that the file it is to replace does not hold.
newVersion(file) ==
    LET held == {file.content[k].id : k \in 1..Len(file.content)}
    IN  CHOOSE n \in 1..(Len(file.content) + 1) :
            n \notin held /\ \A m \in 1..(n - 1) : m \in held

\* The value of a request parameter, None when the request does not carry it.
param(params, key) ==
    IF \E kv \in params : kv[1] = key
    THEN (CHOOSE kv \in params : kv[1] = key)[2]
    ELSE None

csvutils_download_csv(params, io, env) ==
    IF env.net = "csv"
    THEN [io EXCEPT !.reqs = Append(@, params),
                    !.bars = <<[id |-> newVersion(io.file), malformed |-> env.malformed,
                                part |-> "whole", fn |-> param(params, "function")]>>]
    ELSE [io EXCEPT !.reqs = Append(@, params), !.exc = "InvalidContentType"]

\* Mutant of open_w: the file is opened for appending.
open_a(file) == File(file.content)

\* f = open(csvFile, "w"): the file is created or truncated.
open_w(file) == File(<<>>)

\* f.write(bars) on an open file
write(file, bars) == File(file.content \o bars)

\* f.write(bars) failing part-way: a prefix of bars has reached the file
write_prefix(file, bars) ==
    File(file.content \o <<[bars[1] EXCEPT !.part = "prefix"]>>)

\* f = open(csvFile, "w"); f.write(bars); f.close()
write_file(io, env) ==
    IF io.exc # None THEN io
    ELSE IF env.fs = "open" THEN [io EXCEPT !.exc = "IOError"]
    ELSE IF env.fs = "write"
         THEN [io EXCEPT !.exc = "IOError", !.file = write_prefix(open_w(io.file), io.bars)]
    ELSE [io EXCEPT !.file = write(open_w(io.file), io.bars)]

download_daily_bars(symbol, apiKey, io, env) ==
    write_file(csvutils_download_csv(download_csv(symbol, DAY, apiKey), io, env), env)

\* Mutant of download_weekly_bars: the file is opened before the download.
download_weekly_bars_openFirst(symbol, apiKey, io, env) ==
    write_file(csvutils_download_csv(download_csv(symbol, WEEK, apiKey),
                                     [io EXCEPT !.file = open_w(io.file)], env), env)

download_weekly_bars(symbol, apiKey, io, env) ==
    write_file(csvutils_download_csv(download_csv(symbol, WEEK, apiKey), io, env), env)

download_intradays_bars(symbol, frequency, apiKey, io, env) ==
    write_file(csvutils_download_csv(download_csv(symbol, frequency, apiKey), io, env), env)

\* ------------------------------------------------ csvfeed.GenericBarFeed
\* GenericBarFeed.__init__: a feed with nothing loaded, no filter, no column named.
GenericBarFeed_init(frequency) ==
    [constructed |-> TRUE, frequency |-> frequency, instruments |-> <<>>,
     columns |-> [k \in ColumnKeys |-> None], barFilter |-> NoFilter,
     sealed |-> FALSE, bars |-> <<>>]

\* feed.setColumnName(col, name): the header of one logical key; rejected once
\* the feed has started parsing.
setColumnName(feed, col, name) ==
    IF feed.sealed \/ col \notin ColumnKeys THEN feed
    ELSE [feed EXCEPT !.columns[col] = name]

\* feed.setNoAdjClose()
setNoAdjClose(feed) == setColumnName(feed, "adj_close", None)

\* csvfeed.DateRangeFilter(fromDate, toDate)
DateRangeFilter(fromDate, toDate) ==
    [installed |-> TRUE, fromDate |-> fromDate, toDate |-> toDate]

\* DateRangeFilter.includeBar: both bounds are inclusive, a bound that is None
\* does not bound.
includeBar(barFilter, dateTime) ==
    \/ ~barFilter.installed
    \/ /\ (barFilter.toDate = NoDate \/ dateTime <= barFilter.toDate)
       /\ (barFilter.fromDate = NoDate \/ dateTime >= barFilter.fromDate)

\* feed.setBarFilter(barFilter)
setBarFilter(feed, barFilter) == [feed EXCEPT !.barFilter = barFilter]

\* --------------------------------------------------- alphavantagefeed.Feed
\* Mutant of Feed_columns: the weekly adjusted close is read from the daily header.
Feed_columns_daily(feed, frequency) ==
    LET c1 == setColumnName(feed, "datetime", "timestamp")
        c2 == setColumnName(c1, "open", "open")
        c3 == setColumnName(c2, "high", "high")
        c4 == setColumnName(c3, "low", "low")
        c5 == setColumnName(c4, "close", "close")
        c6 == setColumnName(c5, "volume", "volume")
    IN  setColumnName(c6, "adj_close", "adjusted_close")

\* Lines 50-61: the date format and the column names of the vendor's CSV.
Feed_columns(feed, frequency) ==
    LET c1 == setColumnName(feed, "datetime", "timestamp")
        c2 == setColumnName(c1, "open", "open")
        c3 == setColumnName(c2, "high", "high")
        c4 == setColumnName(c3, "low", "low")
        c5 == setColumnName(c4, "close", "close")
        c6 == setColumnName(c5, "volume", "volume")
    IN  IF frequency = DAY THEN setColumnName(c6, "adj_close", "adjusted_close")
        ELSE IF frequency = WEEK THEN setColumnName(c6, "adj_close", "adjusted close")
        ELSE c6

\* Mutant of Feed_init: the frequency is not checked.
Feed_init_unchecked(frequency) ==
    [exc |-> None, feed |-> Feed_columns(GenericBarFeed_init(frequency), frequency)]

\* Mutant of Feed_init: the intraday frequencies are accepted too.
Feed_init_intraday(frequency) ==
    IF frequency \notin {DAY, WEEK, HOUR, MINUTE}
    THEN [exc |-> "Invalid frequency", feed |-> NoFeed]
    ELSE [exc |-> None, feed |-> Feed_columns(GenericBarFeed_init(frequency), frequency)]

Feed_init(frequency) ==
    IF frequency \notin {DAY, WEEK}
    THEN [exc |-> "Invalid frequency", feed |-> NoFeed]
    ELSE [exc |-> None, feed |-> Feed_columns(GenericBarFeed_init(frequency), frequency)]

\* ------------------------------------------------------ the vendor's CSV
\* The timestamps of the rows of a complete body.
CsvDates == <<1, 2, 3>>

\* The header under which the vendor sends the adjusted close, by function.
adjustedHeader(fn) ==
    IF fn = "TIME_SERIES_DAILY_ADJUSTED" THEN "adjusted_close"
    ELSE IF fn = "TIME_SERIES_WEEKLY_ADJUSTED" THEN "adjusted close"
    ELSE None

header(fn) ==
    {"timestamp", "open", "high", "low", "close", "volume"}
        \cup (IF adjustedHeader(fn) = None THEN {} ELSE {adjustedHeader(fn)})

\* The rows of one chunk of a file: a malformed body has a row that cannot be
\* converted, a prefix ends in a cut row.
rowsOf(chunk) ==
    LET n == IF chunk.part = "prefix" THEN 2 ELSE Len(CsvDates)
    IN  [k \in 1..n |->
            [dateTime |-> CsvDates[k], fn |-> chunk.fn,
             bad |-> k = 2 /\ (chunk.malformed \/ chunk.part = "prefix")]]

RECURSIVE rows(_)
rows(content) ==
    IF content = <<>> THEN <<>> ELSE rowsOf(content[1]) \o rows(Tail(content))

\* csvfeed: a row of the file cannot be converted to a bar
hasMalformedRow(file) ==
    LET content == file.content
    IN  \E k \in 1..Len(content) : content[k].malformed \/ content[k].part = "prefix"

\* GenericRowParser.parseBar raises: the row is broken or lacks a column the
\* feed reads (the adjusted close is optional).
rowRaises(feed, row) ==
    \/ row.bad
    \/ \E k \in ColumnKeys \ {"adj_close"} : feed.columns[k] \notin header(row.fn)

\* GenericRowParser.parseBar: the bar of a row
parseBar(feed, symbol, row) ==
    [instrument |-> symbol, dateTime |-> row.dateTime,
     adjClose |-> IF feed.columns["adj_close"] # None
                     /\ feed.columns["adj_close"] \in header(row.fn)
                  THEN "value" ELSE None]

RECURSIVE loadedBars(_, _, _)
loadedBars(feed, symbol, rws) ==
    IF rws = <<>> THEN <<>>
    ELSE LET row == rws[1]
             rest == loadedBars(feed, symbol, Tail(rws))
         IN  IF ~rowRaises(feed, row) /\ includeBar(feed.barFilter, row.dateTime)
             THEN <<parseBar(feed, symbol, row)>> \o rest
             ELSE rest

\* ret.addBarsFromCSV(symbol, fileName, skipMalformedBars=skipMalformedBars)
addBarsFromCSV(feed, symbol, file, skipMalformedBars) ==
    LET rws == rows(file.content)
        started == [feed EXCEPT !.sealed = TRUE]
    IN  IF (\E k \in 1..Len(rws) : rowRaises(feed, rws[k])) /\ ~skipMalformedBars
        THEN [exc |-> "MalformedRow", feed |-> started]
        ELSE [exc |-> None,
              feed |-> [started EXCEPT !.instruments = Append(@, symbol),
                                       !.bars = @ \o loadedBars(feed, symbol, rws)]]

\* ------------------------------------------------------------ build_feed
ArgSets ==
    [symbols : SeqsUpTo(Symbols, MaxSymbols) \ {<<>>},
     frequency : Frequencies,
     skipErrors : BOOLEAN,
     forceDownload : BOOLEAN,
     skipMalformedBars : BOOLEAN,
     apiKey : {None},
     fromDate : {NoDate},
     toDate : {NoDate},
     columnNames : {{}}]

NoArgs ==
    [symbols |-> <<>>, frequency |-> DAY, skipErrors |-> FALSE,
     forceDownload |-> FALSE, skipMalformedBars |-> FALSE, apiKey |-> None,
     fromDate |-> NoDate, toDate |-> NoDate, columnNames |-> {}]

\* No call precedes the current one with the same arguments.
NoPrev == [again |-> FALSE, clean |-> FALSE]

\* Mutant of shouldDownload: a file downloaded for another frequency is no hit.
shouldDownload_frequency(path, forceDownload) ==
    \/ ~exists(path)
    \/ forceDownload
    \/ \E k \in 1..Len(disk[path].content) :
          disk[path].content[k].fn # param(download_csv(path[1], args.frequency, None), "function")

\* if not os.path.exists(fileName) or forceDownload
shouldDownload(path, forceDownload) == ~exists(path) \/ forceDownload

\* Mutant of tryBlock: the else branch downloads the weekly bars without the assert.
tryBlock_noAssert(symbol, frequency, apiKey, io, env) ==
    LET first  == IF frequency = DAY
                  THEN download_daily_bars(symbol, apiKey, io, env)
                  ELSE io
    IN  IF first.exc # None THEN first
        ELSE IF frequency \in {HOUR, MINUTE}
             THEN download_intradays_bars(symbol, frequency, apiKey, first, env)
        ELSE download_weekly_bars(symbol, apiKey, first, env)

\* The body of the try block, lines 180-186: the two if statements in sequence.
tryBlock(symbol, frequency, apiKey, io, env) ==
    LET first  == IF frequency = DAY
                  THEN download_daily_bars(symbol, apiKey, io, env)
                  ELSE io
    IN  IF first.exc # None THEN first
        ELSE IF frequency \in {HOUR, MINUTE}
             THEN download_intradays_bars(symbol, frequency, apiKey, first, env)
        ELSE IF frequency # WEEK
             THEN [first EXCEPT !.exc = "AssertionError"]
        ELSE download_weekly_bars(symbol, apiKey, first, env)

EnvFaults == {"InvalidContentType", "IOError", "MalformedRow", "OSError"}

envFault == err \in EnvFaults \/ \E k \in 1..Len(occ) : occ[k].exc \in EnvFaults

\* Mutant of installBarFilter: the filter is installed when either bound is given.
installBarFilter_either(feed, fromDate, toDate) ==
    IF fromDate # NoDate \/ toDate # NoDate
    THEN setBarFilter(feed, DateRangeFilter(fromDate, toDate))
    ELSE feed

\* Mutant of installBarFilter: the bounds of the range are swapped.
installBarFilter_swapped(feed, fromDate, toDate) ==
    IF fromDate # NoDate /\ toDate # NoDate
    THEN setBarFilter(feed, DateRangeFilter(toDate, fromDate))
    ELSE feed

\* Lines 163-164: the date range filter
installBarFilter(feed, fromDate, toDate) ==
    IF fromDate # NoDate /\ toDate # NoDate
    THEN setBarFilter(feed, DateRangeFilter(fromDate, toDate))
    ELSE feed

\* Mutant of setColumnNames: a name that is None is not set.
RECURSIVE setColumnNames_skipNone(_, _)
setColumnNames_skipNone(feed, columnNames) ==
    IF columnNames = {} THEN feed
    ELSE LET kv == CHOOSE kv \in columnNames : TRUE
             next == IF kv[2] = None THEN feed ELSE setColumnName(feed, kv[1], kv[2])
         IN  setColumnNames_skipNone(next, columnNames \ {kv})

\* Lines 166-168: the additional column names, a set of <<col, name>> pairs
RECURSIVE setColumnNames(_, _)
setColumnNames(feed, columnNames) ==
    IF columnNames = {} THEN feed
    ELSE LET kv == CHOOSE kv \in columnNames : TRUE
         IN  setColumnNames(setColumnName(feed, kv[1], kv[2]), columnNames \ {kv})

\* Mutant of configure: the additional column names are not applied.
configure_noColumns(feed, a) == installBarFilter(feed, a.fromDate, a.toDate)

\* Lines 161-168: the feed and its configuration
configure(feed, a) ==
    setColumnNames(installBarFilter(feed, a.fromDate, a.toDate), a.columnNames)

\* Lines 160-172: the feed is constructed, the storage directory created.
\* os.mkdir(storage) succeeds or raises OSError.
setup(a, again) ==
    \E mkdirOk \in (IF dirExists THEN {TRUE} ELSE BOOLEAN) :
        LET f == Feed_init(a.frequency)
        IN  /\ args' = a
            /\ run' = run + 1
            /\ prev' = [again |-> again, clean |-> again /\ ~envFault]
            /\ requests' = <<>>
            /\ occ' = <<>>
            /\ i' = 1
            /\ ret' = IF f.exc # None THEN f.feed ELSE configure(f.feed, a)
            /\ IF f.exc # None
               THEN /\ pc' = "raised" /\ err' = f.exc
                    /\ dirExists' = dirExists
               ELSE IF ~dirExists /\ ~mkdirOk
               THEN /\ pc' = "raised" /\ err' = "OSError"
                    /\ dirExists' = dirExists
               ELSE /\ pc' = "fetch" /\ err' = None
                    /\ dirExists' = TRUE
            /\ UNCHANGED disk

\* A caller calls build_feed.
build_feed ==
    /\ pc = "idle"
    /\ run < MaxRuns
    /\ \E a \in ArgSets : setup(a, FALSE)

\* A caller calls build_feed once more with the arguments of the call that has
\* just ended.
build_feed_again ==
    /\ pc \in {"returned", "raised"}
    /\ run < MaxRuns
    /\ setup(args, TRUE)

\* The caller is done with the outcome of the call: the feed or the exception
\* and the locals of build_feed are gone, the storage directory stays.
caller_done ==
    /\ pc \in {"returned", "raised"}
    /\ pc' = "idle"
    /\ args' = NoArgs
    /\ i' = 1
    /\ ret' = NoFeed
    /\ err' = None
    /\ requests' = <<>>
    /\ occ' = <<>>
    /\ prev' = NoPrev
    /\ UNCHANGED <<dirExists, disk, run>>

\* Mutant of handler: the exception is logged and skipped whatever skipErrors is.
handler_continue(skipErrors, exc) ==
    IF exc = None THEN "parse" ELSE "continue"

\* Mutant of handler: the exception is re-raised whatever skipErrors is.
handler_raise(skipErrors, exc) ==
    IF exc = None THEN "parse" ELSE "raise"

\* Lines 187-192: what the except clause does with the outcome of the try block.
handler(skipErrors, exc) ==
    IF exc = None THEN "parse"
    ELSE IF skipErrors THEN "continue"
    ELSE "raise"

\* How the cache file of a processed symbol was obtained.
obtained(io) ==
    IF io.bars # <<>> /\ io.exc # "IOError" THEN "fresh" ELSE "failed"

\* Mutant of symbolAt: the symbols are taken from the end of the list.
symbolAt_reversed(symbols, k) == symbols[Len(symbols) + 1 - k]

\* Line 174: for symbol in symbols, the symbol of the k-th iteration
symbolAt(symbols, k) == symbols[k]

\* Lines 174-192 for one symbol: the cache lookup, the try block and its handler.
build_feed_fetch ==
    /\ pc = "fetch"
    /\ i <= Len(args.symbols)
    /\ LET symbol == symbolAt(args.symbols, i)
           path   == fileName(symbol)
           io0    == [file |-> disk[path], reqs |-> <<>>,
                      bars |-> <<>>, exc |-> None]
       IN  IF shouldDownload(path, args.forceDownload)
           THEN \E env \in Env :
                LET io == tryBlock(symbol, args.frequency, args.apiKey, io0, env)
                    h  == handler(args.skipErrors, io.exc)
                IN  /\ disk' = [disk EXCEPT ![path] = io.file]
                    /\ requests' = requests \o io.reqs
                    /\ occ' = Append(occ, [symbol |-> symbol, existed |-> exists(path),
                                           reqs |-> Len(io.reqs), exc |-> io.exc,
                                           got |-> obtained(io), file |-> io.file,
                                           parsed |-> "no"])
                    /\ pc' = (CASE h = "parse" -> "parse"
                                [] h = "continue" -> "fetch"
                                [] h = "raise" -> "raised")
                    /\ i' = IF h = "continue" THEN i + 1 ELSE i
                    /\ err' = IF h = "raise" THEN io.exc ELSE err
           ELSE /\ occ' = Append(occ, [symbol |-> symbol, existed |-> TRUE,
                                       reqs |-> 0, exc |-> None,
                                       got |-> "hit", file |-> disk[path],
                                       parsed |-> "no"])
                /\ pc' = "parse"
                /\ UNCHANGED <<disk, requests, i, err>>
    /\ UNCHANGED <<args, ret, dirExists, run, prev>>

\* Line 193: the cache file is parsed into the feed.
build_feed_parse ==
    /\ pc = "parse"
    /\ LET symbol == symbolAt(args.symbols, i)
           r == addBarsFromCSV(ret, symbol, disk[fileName(symbol)], args.skipMalformedBars)
       IN  /\ ret' = r.feed
           /\ IF r.exc = None
              THEN /\ pc' = "fetch" /\ i' = i + 1 /\ UNCHANGED err
                   /\ occ' = [occ EXCEPT ![i].parsed = "ok"]
              ELSE /\ pc' = "raised" /\ err' = r.exc /\ UNCHANGED i
                   /\ occ' = [occ EXCEPT ![i].parsed = "failed"]
    /\ UNCHANGED <<args, dirExists, disk, requests, run, prev>>

\* Line 194: return ret
build_feed_return ==
    /\ pc = "fetch"
    /\ i > Len(args.symbols)
    /\ pc' = "returned"
    /\ UNCHANGED <<args, i, ret, err, dirExists, disk, requests, occ, run, prev>>

Init ==
    /\ pc = "idle"
    /\ args = NoArgs
    /\ i = 1
    /\ ret = NoFeed
    /\ err = None
    /\ dirExists = FALSE
    /\ disk = [p \in Paths |-> NoFile]
    /\ requests = <<>>
    /\ occ = <<>>
    /\ run = 0
    /\ prev = NoPrev

Next ==
    \/ build_feed
    \/ build_feed_again
    \/ build_feed_fetch
    \/ build_feed_parse
    \/ build_feed_return
    \/ caller_done

Spec == Init /\ [][Next]_vars

\* ------------------------------------------- the download functions alone
\* A caller uses the download functions of the module directly, one call after
\* the other: args holds the arguments of the call, requests what it sent, err
\* the exception it ended with; the cache files outlive the calls.
ApiKeys == {None, "KEY"}

NoCall == [symbol |-> None, frequency |-> 0, apiKey |-> None]

emptyIo(symbol) ==
    [file |-> disk[fileName(symbol)], reqs |-> <<>>, bars |-> <<>>, exc |-> None]

called_download(name, symbol, frequency, apiKey, io) ==
    /\ pc = "idle"
    /\ pc' = name
    /\ args' = [symbol |-> symbol, frequency |-> frequency, apiKey |-> apiKey]
    /\ requests' = io.reqs
    /\ err' = io.exc
    /\ disk' = [disk EXCEPT ![fileName(symbol)] = io.file]
    /\ UNCHANGED <<i, ret, dirExists, occ, run, prev>>

call_download_csv ==
    \E symbol \in Symbols, frequency \in Frequencies, apiKey \in ApiKeys, env \in Env :
        called_download("download_csv", symbol, frequency, apiKey,
            csvutils_download_csv(download_csv(symbol, frequency, apiKey),
                                  emptyIo(symbol), env))

call_download_daily_bars ==
    \E symbol \in Symbols, apiKey \in ApiKeys, env \in Env :
        called_download("download_daily_bars", symbol, DAY, apiKey,
            download_daily_bars(symbol, apiKey, emptyIo(symbol), env))

call_download_weekly_bars ==
    \E symbol \in Symbols, apiKey \in ApiKeys, env \in Env :
        called_download("download_weekly_bars", symbol, WEEK, apiKey,
            download_weekly_bars(symbol, apiKey, emptyIo(symbol), env))

call_download_intradays_bars ==
    \E symbol \in Symbols, frequency \in Frequencies, apiKey \in ApiKeys, env \in Env :
        called_download("download_intradays_bars", symbol, frequency, apiKey,
            download_intradays_bars(symbol, frequency, apiKey, emptyIo(symbol), env))

\* The caller is done with the outcome of a download call.
download_done ==
    /\ pc # "idle"
    /\ pc' = "idle"
    /\ args' = NoCall
    /\ requests' = <<>>
    /\ err' = None
    /\ UNCHANGED <<i, ret, dirExists, disk, occ, run, prev>>

DownloadInit ==
    /\ pc = "idle"
    /\ args = NoCall
    /\ i = 1
    /\ ret = NoFeed
    /\ err = None
    /\ dirExists = TRUE
    /\ disk = [p \in Paths |-> NoFile]
    /\ requests = <<>>
    /\ occ = <<>>
    /\ run = 0
    /\ prev = NoPrev

DownloadNext ==
    \/ call_download_csv
    \/ call_download_daily_bars
    \/ call_download_weekly_bars
    \/ call_download_intradays_bars
    \/ download_done

SpecDownload == DownloadInit /\ [][DownloadNext]_vars

\* --------------------------------------- build_feed and the feed it returns
\* A caller passes build_feed a date range and column names, and goes on using
\* the feed it returns: it names columns on it and loads further files into it.
ColumnNameSets ==
    {{}, {<<"adj_close", None>>}, {<<"adj_close", "close">>}, {<<"datetime", "date">>}}

DateArgs == {NoDate, CsvDates[1], CsvDates[2]}

ConfigArgSets ==
    [symbols : SeqsUpTo(Symbols, 1),
     frequency : {HOUR, DAY, WEEK},
     skipErrors : {TRUE},
     forceDownload : {FALSE},
     skipMalformedBars : BOOLEAN,
     apiKey : {None},
     fromDate : DateArgs,
     toDate : DateArgs,
     columnNames : ColumnNameSets]

build_feed_configured ==
    /\ pc = "idle"
    /\ run < MaxRuns
    /\ \E a \in ConfigArgSets : setup(a, FALSE)

\* The caller calls setColumnName on the returned feed; a call on a feed that
\* has started parsing is rejected.
caller_setColumnName ==
    /\ pc = "returned"
    /\ ret' = setColumnName(ret, "adj_close", "close")
    /\ err' = IF ret.sealed THEN "ColumnsSealed" ELSE err
    /\ UNCHANGED <<pc, args, i, dirExists, disk, requests, occ, run, prev>>

\* The caller calls setNoAdjClose on the returned feed.
caller_setNoAdjClose ==
    /\ pc = "returned"
    /\ ret' = setNoAdjClose(ret)
    /\ err' = IF ret.sealed THEN "ColumnsSealed" ELSE err
    /\ UNCHANGED <<pc, args, i, dirExists, disk, requests, occ, run, prev>>

\* The caller loads a cache file into the returned feed.
caller_addBarsFromCSV ==
    /\ pc = "returned"
    /\ Len(ret.instruments) < MaxSymbols
    /\ \E symbol \in Symbols :
        /\ exists(fileName(symbol))
        /\ LET r == addBarsFromCSV(ret, symbol, disk[fileName(symbol)],
                                   args.skipMalformedBars)
           IN  /\ ret' = r.feed
               /\ pc' = IF r.exc = None THEN "returned" ELSE "raised"
               /\ err' = IF r.exc = None THEN err ELSE r.exc
    /\ UNCHANGED <<args, i, dirExists, disk, requests, occ, run, prev>>

ConfigNext ==
    \/ build_feed_configured
    \/ build_feed_fetch
    \/ build_feed_parse
    \/ build_feed_return
    \/ caller_setColumnName
    \/ caller_setNoAdjClose
    \/ caller_addBarsFromCSV
    \/ caller_done

SpecConfig == Init /\ [][ConfigNext]_vars

\* ------------------------------------------- the command-line utility
\* The utility (main) and build_feed are run one after the other on the same
\* storage root. During a run of main, args holds the parsed command line,
\* requests what the run sent, occ the one download or cache lookup of the run
\* with the exception that was logged or raised, err the exception the process
\* ended with.
MainArgs ==
    [symbol : Symbols,
     frequency : {"daily", "weekly"},
     force_download : BOOLEAN,
     ignore_errors : BOOLEAN,
     api_key : {None}]

\* os.path.join(args.storage, "%s-alpha-vantage.csv" % (args.symbol,))
mainFileName(symbol) == <<symbol, "alpha-vantage">>

MainPaths == {mainFileName(s) : s \in Symbols}

\* Mutant of main_handler: the exception is re-raised whatever ignore_errors is.
main_handler_raise(ignore_errors, exc) ==
    IF exc = None THEN "exit" ELSE "raise"

\* Lines 223-227: the except clause of main.
main_handler(ignore_errors, exc) ==
    IF exc = None THEN "exit"
    ELSE IF ignore_errors THEN "exit"
    ELSE "raise"

\* Lines 218-222: the try block of main.
main_tryBlock(a, io, env) ==
    IF a.frequency = "daily"
    THEN download_daily_bars(a.symbol, a.api_key, io, env)
    ELSE IF a.frequency # "weekly" THEN [io EXCEPT !.exc = "AssertionError"]
    ELSE download_weekly_bars(a.symbol, a.api_key, io, env)

\* One run of the utility, from the parsed command line to the exit.
main ==
    /\ pc = "idle"
    /\ run < MaxRuns
    /\ run' = run + 1
    /\ \E a \in MainArgs, mkdirOk \in (IF dirExists THEN {TRUE} ELSE BOOLEAN) :
        LET path == mainFileName(a.symbol)
            io0  == [file |-> disk[path], reqs |-> <<>>, bars |-> <<>>, exc |-> None]
        IN  /\ args' = a
            /\ IF ~dirExists /\ ~mkdirOk
               THEN /\ pc' = "main_raised" /\ err' = "OSError"
                    /\ requests' = <<>> /\ occ' = <<>>
                    /\ UNCHANGED <<dirExists, disk>>
               ELSE /\ dirExists' = TRUE
                    /\ IF ~exists(path) \/ a.force_download
                       THEN \E env \in Env :
                            LET io == main_tryBlock(a, io0, env)
                                h  == main_handler(a.ignore_errors, io.exc)
                            IN  /\ disk' = [disk EXCEPT ![path] = io.file]
                                /\ requests' = io.reqs
                                /\ occ' = <<[symbol |-> a.symbol, existed |-> exists(path),
                                             reqs |-> Len(io.reqs), exc |-> io.exc,
                                             got |-> obtained(io), file |-> io.file,
                                             parsed |-> "no"]>>
                                /\ pc' = IF h = "exit" THEN "main_exit" ELSE "main_raised"
                                /\ err' = IF h = "exit" THEN None ELSE io.exc
                       ELSE /\ occ' = <<[symbol |-> a.symbol, existed |-> TRUE,
                                         reqs |-> 0, exc |-> None,
                                         got |-> "hit", file |-> disk[path],
                                         parsed |-> "no"]>>
                            /\ pc' = "main_exit"
                            /\ err' = None
                            /\ requests' = <<>>
                            /\ UNCHANGED disk
    /\ UNCHANGED <<i, ret, prev>>

\* The process of the utility is over.
main_done ==
    /\ pc \in {"main_exit", "main_raised"}
    /\ pc' = "idle"
    /\ args' = NoArgs
    /\ err' = None
    /\ requests' = <<>>
    /\ occ' = <<>>
    /\ UNCHANGED <<i, ret, dirExists, disk, run, prev>>

MainFeedArgSets ==
    [symbols : {<<s>> : s \in Symbols},
     frequency : {DAY, WEEK},
     skipErrors : BOOLEAN,
     forceDownload : {FALSE},
     skipMalformedBars : {FALSE},
     apiKey : {None},
     fromDate : {NoDate},
     toDate : {NoDate},
     columnNames : {{}}]

\* A caller calls build_feed on the storage root the utility uses.
build_feed_after_main ==
    /\ pc = "idle"
    /\ run < MaxRuns
    /\ \E a \in MainFeedArgSets : setup(a, FALSE)

MainInit ==
    /\ pc = "idle"
    /\ args = NoArgs
    /\ i = 1
    /\ ret = NoFeed
    /\ err = None
    /\ dirExists = FALSE
    /\ disk = [p \in Paths \cup MainPaths |-> NoFile]
    /\ requests = <<>>
    /\ occ = <<>>
    /\ run = 0
    /\ prev = NoPrev

MainNext ==
    \/ main
    \/ main_done
    \/ build_feed_after_main
    \/ build_feed_fetch
    \/ build_feed_parse
    \/ build_feed_return
    \/ caller_done

SpecMain == MainInit /\ [][MainNext]_vars

\* ================================================================ claims
final == pc \in {"returned", "raised"}

\* A build_feed call is under way or has just ended.
called == pc # "idle"

inFeed(symbol) == symbol \in Range(ret.instruments)

Supported == {DAY, WEEK, HOUR, MINUTE}

\* A file the parser accepts under the given skipMalformedBars.
parseable(file, skipMalformedBars) ==
    skipMalformedBars \/ \A k \in 1..Len(file.content) :
        ~file.content[k].malformed /\ file.content[k].part = "whole"

RECURSIVE SumReqs(_)
SumReqs(o) == IF o = <<>> THEN 0 ELSE o[1].reqs + SumReqs(Tail(o))

\* The step about to be taken is the cache lookup and download of symbol i.
atFetch == pc = "fetch" /\ i <= Len(args.symbols)

\* C1: when build_feed returns a feed, a symbol of the input list is in the feed
\* if and only if its cache file was obtained (cache hit or successful fresh
\* download) and that file parses.
C1_InFeedIffObtainedAndParsed ==
    pc = "returned" =>
        \A s \in Range(args.symbols) :
            inFeed(s) <=>
                \E k \in 1..Len(occ) :
                    /\ occ[k].symbol = s
                    /\ occ[k].got \in {"hit", "fresh"}
                    /\ parseable(occ[k].file, args.skipMalformedBars)

\* C2: build_feed(["ORCL", "AAPL"], DAY, skipErrors=false) on an empty storage
\* root, both downloads succeeding, returns without raising, leaves the two
\* cache files on disk and returns a feed with both symbols.
C2_DailyEndToEnd ==
    (/\ run = 1
     /\ final
     /\ args.frequency = DAY
     /\ ~args.skipErrors
     /\ args.symbols = <<"ORCL", "AAPL">>
     /\ ~envFault)
    => /\ pc = "returned"
       /\ \A s \in {"ORCL", "AAPL"} : exists(fileName(s)) /\ inFeed(s)
       /\ Cardinality({p \in Paths : exists(p)}) = 2

\* C3: with skipErrors=true and no failure other than failed downloads,
\* build_feed (DAY or WEEK) raises nothing and returns a feed with every symbol
\* whose download succeeded and no symbol whose downloads all failed.
C3_SkipErrorsKeepsDownloaded ==
    (/\ final
     /\ args.skipErrors
     /\ args.frequency \in {DAY, WEEK}
     /\ err \notin {"IOError", "MalformedRow", "OSError"}
     /\ \A k \in 1..Len(occ) : occ[k].exc # "IOError"
     /\ \A k \in 1..Len(occ) : parseable(occ[k].file, args.skipMalformedBars))
    => /\ pc = "returned"
       /\ \A k \in 1..Len(occ) : occ[k].got = "fresh" => inFeed(occ[k].symbol)
       /\ \A s \in Range(args.symbols) :
            (\A k \in 1..Len(occ) : occ[k].symbol = s => occ[k].exc = "InvalidContentType")
            => ~inFeed(s)

\* C4: with skipErrors=false, once the download of a symbol has failed the call
\* has raised that download error, that symbol is the last one processed (nothing
\* later is downloaded or parsed), and the cache file of every earlier
\* symbol is on disk as it was written.
C4_DownloadErrorAborts ==
    \A k \in 1..Len(occ) :
        (~args.skipErrors /\ occ[k].exc = "InvalidContentType")
        => /\ pc = "raised"
           /\ err = "InvalidContentType"
           /\ k = Len(occ) /\ k = i
           /\ occ[k].parsed = "no"
           /\ Len(requests) = SumReqs(occ)
           /\ requests[Len(requests)] = download_csv(occ[k].symbol, args.frequency, args.apiKey)
           /\ Len(ret.instruments) = k - 1
           /\ disk[fileName(occ[k].symbol)] = occ[k].file
           /\ \A j \in 1..(k - 1) :
                (occ[j].got = "fresh" /\ \A m \in (j + 1)..k : occ[m].symbol # occ[j].symbol)
                => /\ exists(fileName(occ[j].symbol))
                   /\ disk[fileName(occ[j].symbol)] = occ[j].file

C4_Witness ==
    /\ pc = "raised"
    /\ ~args.skipErrors
    /\ err = "InvalidContentType"
    /\ Len(occ) = 2
    /\ occ[1].got = "fresh"
    /\ occ[1].symbol # occ[2].symbol
    /\ exists(fileName(occ[1].symbol))

\* C5: a second build_feed call with the arguments of the first and
\* forceDownload=false, nothing having failed outside the program, issues no
\* network request.
C5_SecondRunIsCacheHit ==
    (/\ final
     /\ prev.again /\ prev.clean
     /\ ~args.forceDownload
     /\ ~envFault)
    => Len(requests) = 0

\* C6: processing one symbol issues exactly one request when its cache path does
\* not exist or forceDownload is set and none otherwise; no other step issues a
\* request; a cache hit without forceDownload leaves the disk as it is.
C6_OneRequestIffShouldDownload ==
    [][IF atFetch
       THEN LET p == fileName(args.symbols[i])
            IN  /\ Len(requests') = Len(requests)
                        + (IF ~disk[p].exists \/ args.forceDownload THEN 1 ELSE 0)
                /\ (disk[p].exists /\ ~args.forceDownload) => disk' = disk
                /\ occ'[Len(occ')].reqs = Len(requests') - Len(requests)
       ELSE requests' = requests \/ (pc # "parse" /\ requests' = <<>>)]_vars

C6_Witness ==
    /\ ~args.forceDownload
    /\ \E k, j \in 1..Len(occ) :
        /\ occ[k].reqs = 1 /\ ~occ[k].existed
        /\ occ[j].reqs = 0 /\ occ[j].existed

\* C7: with forceDownload=true every processed symbol gets a request, also when
\* its cache file exists; a call that returns has issued one request per symbol;
\* after a forced download that succeeded the cache file holds exactly the new
\* body and nothing of the prior content.
C7_ForceDownloadOverwrites ==
    /\ [](pc = "returned" /\ args.forceDownload => Len(requests) = Len(args.symbols))
    /\ [][(atFetch /\ args.forceDownload)
          => LET p == fileName(args.symbols[i])
             IN  /\ Len(requests') = Len(requests) + 1
                 /\ occ'[Len(occ')].got = "fresh"
                    => /\ disk'[p].exists
                       /\ Len(disk'[p].content) = 1
                       /\ disk'[p].content[1].part = "whole"
                       /\ \A k \in 1..Len(disk[p].content) :
                            disk[p].content[k].id # disk'[p].content[1].id]_vars

C7_Witness ==
    /\ pc = "parse"
    /\ args.forceDownload
    /\ occ[i].existed
    /\ occ[i].got = "fresh"
    /\ disk[fileName(args.symbols[i])].content[1].id = 2

\* C8: a build_feed call with a frequency outside {DAY, WEEK, HOUR, MINUTE} raises
\* "Invalid frequency" from the feed constructor, whatever skipErrors is, with no
\* request issued, the storage directory not created and no file written.
C8_UnsupportedFrequencyFailsFirst ==
    /\ []((called /\ args.frequency \notin Supported)
          => /\ pc = "raised" /\ err = "Invalid frequency"
             /\ requests = <<>> /\ occ = <<>>)
    /\ [][(run' = run + 1 /\ args'.frequency \notin Supported)
          => /\ pc' = "raised" /\ err' = "Invalid frequency"
             /\ ~ret'.constructed
             /\ requests' = <<>>
             /\ UNCHANGED <<dirExists, disk>>]_vars

C8_Witness ==
    /\ run = 1
    /\ args.frequency = MONTH
    /\ args.skipErrors
    /\ pc = "raised" /\ err = "Invalid frequency"
    /\ ~dirExists

\* C9: constructing the feed with a frequency that is neither DAY nor WEEK raises
\* "Invalid frequency"; constructing it with DAY or WEEK does not raise and yields
\* a feed.
C9_FeedAcceptsOnlyDayAndWeek ==
    called =>
        /\ args.frequency \notin {DAY, WEEK}
            => (err = "Invalid frequency" /\ pc = "raised" /\ ~ret.constructed)
        /\ args.frequency \in {DAY, WEEK}
            => (err # "Invalid frequency" /\ ret.constructed /\ ret.frequency = args.frequency)

C9_Witness ==
    /\ called
    /\ args.frequency = MINUTE
    /\ err = "Invalid frequency"
    /\ ~ret.constructed

\* C10: build_feed accepts HOUR and MINUTE: it does not fail with an invalid
\* frequency error.
C10_IntradayAccepted ==
    (called /\ args.frequency \in {HOUR, MINUTE}) => err # "Invalid frequency"

\* ---------------------------------------------------------------- C11
\* The reference request, written as the table of the vendor's interface.
referenceFunction ==
    [f \in Supported |->
        CASE f = DAY    -> {<<"function", "TIME_SERIES_DAILY_ADJUSTED">>}
          [] f = WEEK   -> {<<"function", "TIME_SERIES_WEEKLY_ADJUSTED">>}
          [] f = HOUR   -> {<<"function", "TIME_SERIES_INTRADAY">>, <<"interval", "60min">>}
          [] f = MINUTE -> {<<"function", "TIME_SERIES_INTRADAY">>, <<"interval", "1min">>}]

referenceRequest(symbol, frequency, apiKey) ==
    {<<"symbol", symbol>>, <<"datatype", "csv">>, <<"outputsize", "full">>,
     <<"apikey", IF apiKey = None THEN "demo" ELSE apiKey>>}
        \cup referenceFunction[frequency]

\* C11: for every frequency in {DAY, WEEK, HOUR, MINUTE}, every symbol and every
\* apiKey (a string or None), a call of a download function sends exactly one
\* request, and its parameter set is the reference one: symbol, datatype=csv,
\* outputsize=full, apikey (or "demo"), the function of the frequency and, for
\* HOUR and MINUTE, the interval; nothing else.
C11_RequestParameters ==
    (pc # "idle" /\ args.frequency \in Supported) =>
        requests = <<referenceRequest(args.symbol, args.frequency, args.apiKey)>>

C11_Witness ==
    /\ pc = "download_intradays_bars"
    /\ args.frequency = HOUR
    /\ args.apiKey = None
    /\ requests # <<>>
    /\ <<"interval", "60min">> \in requests[1]
    /\ <<"apikey", "demo">> \in requests[1]

\* ---------------------------------------------------------------- C12
\* C12: a parse error is a per-symbol error under skipErrors like a download
\* error: when parsing a symbol's cache file raises, build_feed with
\* skipErrors=true skips the symbol and goes on, and with skipErrors=false the
\* call ends with that error.
C12_ParseErrorFollowsSkipErrors ==
    \A k \in 1..Len(occ) :
        occ[k].parsed = "failed" =>
            IF args.skipErrors
            THEN ~(pc = "raised" /\ err = "MalformedRow")
            ELSE pc = "raised" /\ err = "MalformedRow"

\* ---------------------------------------------------------------- C13
\* The call has ended with the exception exc, raised for the symbol of the last
\* occurrence.
abortedBy(k, exc) == k = Len(occ) /\ pc = "raised" /\ err = exc

wholeFile(file) ==
    Len(file.content) = 1 /\ file.content[1].part = "whole"

\* C14: in every reachable state a cache file that exists holds the complete
\* body of one download: no existing cache file is empty or holds a strict
\* prefix of a body, and no cache hit is taken on such a file.
C14_CacheFileNeverPartial ==
    /\ \A path \in Paths : exists(path) => wholeFile(disk[path])
    /\ \A k \in 1..Len(occ) : occ[k].got = "hit" => wholeFile(occ[k].file)

\* ---------------------------------------------------------------- C15
\* C15: the cache path of a symbol depends on the symbol only, not on the
\* frequency: whatever frequency the file of a symbol was downloaded for, a
\* build_feed call with forceDownload=false that finds the file sends no request
\* for the symbol, leaves the file as it is and hands that file to the parser.
C15_CacheIgnoresFrequency ==
    \A k \in 1..Len(occ) :
        (occ[k].existed /\ ~args.forceDownload) =>
            /\ occ[k].reqs = 0
            /\ occ[k].got = "hit"
            /\ occ[k].file = disk[fileName(occ[k].symbol)]
            /\ (k < i => occ[k].parsed # "no")

C15_Witness ==
    /\ pc = "returned"
    /\ args.frequency = WEEK
    /\ ~args.forceDownload
    /\ requests = <<>>
    /\ occ # <<>>
    /\ occ[1].got = "hit"
    /\ occ[1].parsed = "ok"
    /\ occ[1].file.content[1].fn = "TIME_SERIES_DAILY_ADJUSTED"

\* ---------------------------------------------------------------- C20
\* The symbols of the occurrences that were parsed into the feed, in order.
RECURSIVE loadedSymbols(_)
loadedSymbols(o) ==
    IF o = <<>> THEN <<>>
    ELSE IF o[1].parsed = "ok" THEN <<o[1].symbol>> \o loadedSymbols(Tail(o))
    ELSE loadedSymbols(Tail(o))

\* The occurrence is over: its symbol was parsed, or skipped after an error.
parsedOrSkipped(o) ==
    \/ o.parsed = "ok"
    \/ o.parsed = "no" /\ o.exc # None /\ args.skipErrors

\* C20: build_feed processes the symbols one at a time in input order: the
\* k-th symbol looked up or downloaded is the k-th of the list, the lookup of a
\* symbol starts only when every symbol before it has been parsed or skipped,
\* and the symbols of the feed are, in order, those of the list that were loaded.
C20_OneAtATimeInInputOrder ==
    called =>
        /\ Len(occ) <= Len(args.symbols)
        /\ \A k \in 1..Len(occ) : occ[k].symbol = args.symbols[k]
        /\ \A k \in 1..(Len(occ) - 1) : parsedOrSkipped(occ[k])
        /\ ret.instruments = loadedSymbols(occ)

C20_Witness ==
    /\ pc = "returned"
    /\ Len(args.symbols) = 2
    /\ args.symbols[1] # args.symbols[2]
    /\ ret.instruments = args.symbols

\* ---------------------------------------------------------------- C16
\* The default header of a logical key, by frequency, as the vendor names it.
defaultHeader(frequency, col) ==
    CASE col = "datetime" -> "timestamp"
      [] col = "adj_close" -> (IF frequency = DAY THEN "adjusted_close" ELSE "adjusted close")
      [] OTHER -> col

\* The header the caller named for a key, if it named one.
overridden(columnNames, col) == \E kv \in columnNames : kv[1] = col

effectiveHeader(a, col) ==
    IF overridden(a.columnNames, col) THEN param(a.columnNames, col)
    ELSE defaultHeader(a.frequency, col)

\* build_feed is at work on its feed.
building == pc \in {"fetch", "parse"}

\* C16: the column mapping of the feed build_feed builds, from the first symbol
\* to the return, is the defaults of the frequency overlaid by columnNames, the
\* override winning for every key it names: without override adj_close is
\* "adjusted_close" for DAY and "adjusted close" for WEEK, datetime is
\* "timestamp" and open, high, low, close, volume are their own names.
C16_EffectiveColumnMapping ==
    /\ [](building => \A col \in ColumnKeys : ret.columns[col] = effectiveHeader(args, col))
    /\ [][(pc = "fetch" /\ pc' = "returned") =>
            \A col \in ColumnKeys : ret'.columns[col] = effectiveHeader(args', col)]_vars

C16_Witness ==
    /\ pc = "returned"
    /\ args.frequency = WEEK
    /\ args.columnNames = {<<"datetime", "date">>}
    /\ ret.columns["datetime"] = "date"
    /\ ret.columns["adj_close"] = "adjusted close"
    /\ ret.columns["volume"] = "volume"

\* ---------------------------------------------------------------- C17
noAdjClose(bars) == \A n \in 1..Len(bars) : bars[n].adjClose = None

\* C17: when adj_close is mapped to None on a feed before it parses (by
\* columnNames {"adj_close": None} or by setNoAdjClose), every bar the feed
\* parses has adjClose None, also when the file has a column under the default
\* adjusted-close header.
C17_NoAdjCloseWins ==
    /\ (ret.constructed /\ ret.columns["adj_close"] = None) => noAdjClose(ret.bars)
    /\ (/\ called
        /\ <<"adj_close", None>> \in args.columnNames
        /\ (building \/ \E k \in 1..Len(occ) : occ[k].parsed = "ok"))
            => noAdjClose(ret.bars)

C17_Witness ==
    /\ pc = "returned"
    /\ args.columnNames = {<<"adj_close", None>>}
    /\ occ # <<>>
    /\ occ[1].parsed = "ok"
    /\ wholeFile(occ[1].file)
    /\ adjustedHeader(occ[1].file.content[1].fn) = "adjusted close"
    /\ Len(ret.bars) = Len(CsvDates)
    /\ noAdjClose(ret.bars)

\* ---------------------------------------------------------------- C18
overridesApplied ==
    \A col \in ColumnKeys :
        overridden(args.columnNames, col) => ret.columns[col] = param(args.columnNames, col)

inRange(dateTime) == args.fromDate <= dateTime /\ dateTime <= args.toDate

\* The timestamps of the bars of a symbol in the feed.
barDates(symbol) ==
    {ret.bars[n].dateTime : n \in {m \in 1..Len(ret.bars) : ret.bars[m].instrument = symbol}}

\* The timestamps of the rows of the symbol's cache file the parser converts.
rowDates(symbol) ==
    LET rws == rows(disk[fileName(symbol)].content)
    IN  {rws[n].dateTime : n \in {m \in 1..Len(rws) : ~rowRaises(ret, rws[m])}}

\* C19: with a date range [fromDate, toDate] passed to build_feed, a parsed bar
\* is kept if and only if fromDate <= timestamp <= toDate: the bars of a loaded
\* symbol are those of the rows of its file within the range, both ends
\* included.
C19_DateRangeInclusive ==
    (ret.constructed /\ args.fromDate # NoDate /\ args.toDate # NoDate) =>
        \A symbol \in Range(ret.instruments) :
            barDates(symbol) = {d \in rowDates(symbol) : inRange(d)}

C19_Witness ==
    /\ pc = "returned"
    /\ args.fromDate = CsvDates[1]
    /\ args.toDate = CsvDates[2]
    /\ ret.instruments # <<>>
    /\ rowDates(ret.instruments[1]) = Range(CsvDates)
    /\ barDates(ret.instruments[1]) = {CsvDates[1], CsvDates[2]}

\* ---------------------------------------------------------------- C22
\* C22: a failed download (download_csv raising) leaves the file system as it
\* was: no cache file is created, and under forceDownload an existing one keeps
\* its content; under skipErrors=true the symbol of that iteration is not added
\* to the feed, although a usable cache file may exist, and the loop goes on.
C22_FailedDownloadLeavesDisk ==
    /\ [](pc = "returned" =>
            \A k \in 1..Len(occ) :
                occ[k].exc = "InvalidContentType" => occ[k].parsed = "no")
    /\ [][(atFetch /\ occ'[Len(occ')].exc = "InvalidContentType") =>
            /\ disk' = disk
            /\ ret' = ret
            /\ occ'[Len(occ')].file = disk[fileName(args.symbols[i])]
            /\ args.skipErrors => (pc' = "fetch" /\ i' = i + 1)]_vars

C22_Witness ==
    /\ pc = "returned"
    /\ args.forceDownload
    /\ args.skipErrors
    /\ Len(occ) = 1
    /\ occ[1].exc = "InvalidContentType"
    /\ occ[1].existed
    /\ wholeFile(disk[fileName(occ[1].symbol)])
    /\ parseable(disk[fileName(occ[1].symbol)], args.skipMalformedBars)
    /\ ret.instruments = <<>>

\* ---------------------------------------------------------------- C24
bothDates == args.fromDate # NoDate /\ args.toDate # NoDate

oneDate == (args.fromDate # NoDate) # (args.toDate # NoDate)

\* C24: the feed of build_feed has the date range filter if and only if both
\* fromDate and toDate are given; with only one of the two given there is no
\* filter and every bar the parser converts is in the feed, those outside the
\* given bound too.
C24_FilterNeedsBothDates ==
    (called /\ ret.constructed) =>
        /\ ret.barFilter.installed <=> bothDates
        /\ bothDates => ret.barFilter = DateRangeFilter(args.fromDate, args.toDate)
        /\ oneDate => \A symbol \in Range(ret.instruments) :
                          barDates(symbol) = rowDates(symbol)

C24_Witness ==
    /\ pc = "returned"
    /\ args.fromDate = CsvDates[2]
    /\ args.toDate = NoDate
    /\ ~ret.barFilter.installed
    /\ ret.instruments # <<>>
    /\ barDates(ret.instruments[1]) = Range(CsvDates)

\* ---------------------------------------------------------------- C25
hasParam(params, key) == \E kv \in params : kv[1] = key

\* C25: no request is sent for a frequency outside {DAY, WEEK, HOUR, MINUTE}
\* by any of the download functions: every request that is sent has a function
\* parameter, and an interval parameter when the function is
\* TIME_SERIES_INTRADAY.
C25_NoRequestForUnsupportedFrequency ==
    (pc # "idle" /\ requests # <<>>) =>
        /\ args.frequency \in Supported
        /\ \A k \in 1..Len(requests) :
            /\ hasParam(requests[k], "function")
            /\ <<"function", "TIME_SERIES_INTRADAY">> \in requests[k]
                    => hasParam(requests[k], "interval")

\* ---------------------------------------------------------------- C21
mainOver == pc \in {"main_exit", "main_raised"}

\* C21: a run of the utility sends at most one request, and sends one only when
\* the target file does not exist or --force-download is given; when the
\* download fails the run ends with the error raised if --ignore-errors is
\* unset, and with the error logged and a normal exit if it is set.
C21_MainExitFollowsIgnoreErrors ==
    mainOver =>
        /\ Len(requests) <= 1
        /\ requests # <<>> => (occ # <<>> /\ (~occ[1].existed \/ args.force_download))
        /\ occ # <<>> =>
            /\ Len(requests) = occ[1].reqs
            /\ (~occ[1].existed \/ args.force_download) => Len(requests) = 1
            /\ IF occ[1].exc = None THEN pc = "main_exit" /\ err = None
               ELSE IF args.ignore_errors THEN pc = "main_exit" /\ err = None
               ELSE pc = "main_raised" /\ err = occ[1].exc

C21_Witness ==
    /\ pc = "main_exit"
    /\ args.ignore_errors
    /\ args.force_download
    /\ Len(requests) = 1
    /\ occ[1].existed
    /\ occ[1].exc = "InvalidContentType"

\* ---------------------------------------------------------------- C23
\* C23: the utility and build_feed resolve the same cache path for a symbol and
\* a storage root: a build_feed call with forceDownload=false for a symbol whose
\* file the utility has downloaded takes that file as a cache hit and sends no
\* request.
C23_MainFileIsCacheHit ==
    (/\ pc \in {"parse", "returned", "raised"}
     /\ occ # <<>>
     /\ ~args.forceDownload
     /\ wholeFile(disk[mainFileName(occ[1].symbol)])
     /\ ~disk[mainFileName(occ[1].symbol)].content[1].malformed)
        => (occ[1].got = "hit" /\ requests = <<>>)

====
